---- MODULE Spec2Model ----
(***************************************************************************)
(* The vertical slideshow component (custom element                        *)
(* vertical-slideshow-component) in its two variants:                      *)
(*   variant 1  src/assets/vertical-slideshow.js  (offset scrolling,       *)
(*              16 ms debounce, stored thumbnail handlers)                 *)
(*   variant 2  src/unnamed/part_000  (scrollIntoView, 50 ms debounce,     *)
(*              wheel snapping, currentIndex / next / previous)            *)
(* The DOM is a column of numSlides slides of equal height SlideHeight in  *)
(* a scroll container of the same height, and numButtons thumbnail         *)
(* buttons.  Every slide holds one element matched by the lazy selector    *)
(* '[data-src], [loading="lazy"]'.  Time is counted in milliseconds.       *)
(***************************************************************************)
EXTENDS Integers, Sequences, FiniteSets, TLC

\* ---- bounds of the model ------------------------------------------------
MaxSlides == 2
MaxEvents == 2
SlideHeight == 2

\* ---- constants of the program -------------------------------------------
SmoothDelay == 300
InstantDelay == 0
DebounceDelay1 == 16
DebounceDelay2 == 50

Variants == {1, 2}
\* thumbnail buttons the markup has beyond one per slide
ButtonSurplus == {0, 1}
Behaviors == {"smooth", "instant"}
NoTimer == 0
NoIndex == -1

VARIABLES
  variant,            \* which source file the element runs
  numSlides,          \* children of refs.mediaContainer
  numButtons,         \* .vertical-slideshow__thumbnail buttons
  slideMarkup,        \* slide -> what it holds for a thumbnail: a
                      \* [data-thumbnail] element, an img with or without alt
  thumbnailContent,   \* button -> what the button shows
  attached,           \* between connectedCallback and disconnectedCallback
  initialized,        \* refs.slides / refs.thumbnailButtons have been assigned
  listeners,          \* click/pointerenter listener pairs on every button
  ariaHidden,         \* slide -> "unset" | "true" | "false"
  ariaSelected,       \* button -> "unset" | "true" | "false"
  dataSlideIndex,     \* slide -> data-slide-index, NoIndex while unset
  isScrolling,        \* #isScrolling
  scrollTimeout,      \* #scrollTimeout: id of the last flag-clear timer
  timers,             \* pending flag-clear timers: [id, delay, remaining] and, as
                      \* history, the index selected and whether an earlier
                      \* timer was still pending when it was set
  nextTimerId,        \* id the next setTimeout returns
  debounceTimer,      \* remaining ms of the debounce timer, NoIndex if none
  observers,          \* one-shot intersection observers awaiting delivery
  scrollTop,          \* scroll offset of the media container
  scrollTarget,       \* target of a running smooth scroll, NoIndex if none
  dataSrc,            \* slide -> data-src of its lazy element
  srcAttr,            \* slide -> src of its lazy element
  last,               \* history: the handler that ran last and what it did
  budget              \* events from outside that the model still admits

config == <<variant, numSlides, numButtons, slideMarkup>>
vars == <<variant, numSlides, numButtons, slideMarkup, thumbnailContent,
          attached, initialized, listeners,
          ariaHidden, ariaSelected, dataSlideIndex, isScrolling, scrollTimeout,
          timers, nextTimerId, debounceTimer, observers, scrollTop,
          scrollTarget, dataSrc, srcAttr, last, budget>>

Slides == 0 .. numSlides - 1
Buttons == 0 .. numButtons - 1

\* data-src values: absent, the empty string, or a URL (one per slide);
\* NoSrc is the src the lazy element has in the markup
Absent == -1
EmptyString == 0
Url(i) == i + 1
NoSrc == -2

Abs(x) == IF x < 0 THEN -x ELSE x
Min(a, b) == IF a < b THEN a ELSE b
Max(a, b) == IF a > b THEN a ELSE b

\* ---- the mutable part of the element, as a record -----------------------
Cur ==
  [ ariaHidden |-> ariaHidden, ariaSelected |-> ariaSelected,
    isScrolling |-> isScrolling, scrollTimeout |-> scrollTimeout,
    timers |-> timers, nextTimerId |-> nextTimerId,
    scrollTop |-> scrollTop, scrollTarget |-> scrollTarget,
    debounceTimer |-> debounceTimer,
    dataSrc |-> dataSrc, srcAttr |-> srcAttr,
    events |-> << >>, calls |-> << >>, prevented |-> FALSE ]

\* the element after a handler has run (the record is evaluated once)
Commit(after) ==
  \E st \in {after} :
    /\ ariaHidden' = st.ariaHidden
    /\ ariaSelected' = st.ariaSelected
    /\ isScrolling' = st.isScrolling
    /\ scrollTimeout' = st.scrollTimeout
    /\ timers' = st.timers
    /\ nextTimerId' = st.nextTimerId
    /\ scrollTop' = st.scrollTop
    /\ scrollTarget' = st.scrollTarget
    /\ debounceTimer' = st.debounceTimer
    /\ dataSrc' = st.dataSrc
    /\ srcAttr' = st.srcAttr

\* what a handler did: the slide-content-loaded events it dispatched (their
\* detail.index), the selectSlide calls it made, whether it called
\* event.preventDefault()
Did(op, index, behavior, rm, st) ==
  [ op |-> op, index |-> index, behavior |-> behavior, reducedMotion |-> rm,
    prevented |-> st.prevented, events |-> st.events, calls |-> st.calls ]

Quiet(op) ==
  [ op |-> op, index |-> NoIndex, behavior |-> "", reducedMotion |-> FALSE,
    prevented |-> FALSE, events |-> << >>, calls |-> << >> ]

DebounceDelay == IF variant = 1 THEN DebounceDelay1 ELSE DebounceDelay2

\* ---- helpers of the element ---------------------------------------------
UpdateActiveThumbnail(st, activeIndex) ==
  IF ~initialized THEN st
  ELSE [st EXCEPT !.ariaSelected =
          [k \in Buttons |-> IF k = activeIndex THEN "true" ELSE "false"]]

\* mutant: the active slide is shown, the others are not hidden
UpdateSlideVisibility_KeepsOthers(st, activeIndex) ==
  IF ~initialized THEN st
  ELSE [st EXCEPT !.ariaHidden =
          [k \in Slides |-> IF k = activeIndex THEN "false" ELSE @[k]]]

UpdateSlideVisibility(st, activeIndex) ==
  IF ~initialized THEN st
  ELSE [st EXCEPT !.ariaHidden =
          [k \in Slides |-> IF k # activeIndex THEN "true" ELSE "false"]]

\* mutant: an empty data-src counts as a deferred source
HasDeferredSource_AnyAttribute(value) == value # Absent

\* element.dataset.src is truthy: the attribute is there and not empty
HasDeferredSource(value) == value # Absent /\ value # EmptyString

LoadSlideContent(st, index) ==
  IF ~initialized \/ index \notin Slides THEN st
  ELSE [st EXCEPT
          !.srcAttr[index] =
             IF HasDeferredSource(st.dataSrc[index]) THEN st.dataSrc[index] ELSE @,
          !.dataSrc[index] =
             IF HasDeferredSource(st.dataSrc[index]) THEN Absent ELSE @,
          !.events = Append(@, index)]

\* debounce(fn, wait): a call cancels the pending timer and starts a new one
Debounce(st, wait) == [st EXCEPT !.debounceTimer = wait]

\* a scroll event of the container: the listener is the debounced
\* handleScroll, registered while the element is attached
ScrollEvent(st) == IF attached THEN Debounce(st, DebounceDelay) ELSE st

\* the scroll selectSlide issues: offset assignment (variant 1) or
\* scrollIntoView centring (variant 2); both end with the slide filling the
\* container.  An instant scroll moves at once, a smooth one sets a target.
ScrollToSlide(st, index, behavior) ==
  LET top == index * SlideHeight
  IN IF st.scrollTop = top THEN [st EXCEPT !.scrollTarget = NoIndex]
     ELSE IF behavior = "instant"
          THEN ScrollEvent([st EXCEPT !.scrollTop = top, !.scrollTarget = NoIndex])
          ELSE [st EXCEPT !.scrollTarget = top]

\* mutant: the delay does not depend on the behaviour
FlagClearDelay_AlwaysSmooth(behavior) == SmoothDelay

FlagClearDelay(behavior) ==
  IF behavior = "instant" THEN InstantDelay ELSE SmoothDelay

\* mutant: the pending timers are cancelled before the new one is set
ScheduleFlagClear_CancelsEarlier(st, index, behavior) ==
  [st EXCEPT
     !.timers = {[id |-> st.nextTimerId,
                  delay |-> FlagClearDelay(behavior),
                  remaining |-> FlagClearDelay(behavior),
                  index |-> index,
                  overlapped |-> st.timers # {}]},
     !.scrollTimeout = st.nextTimerId,
     !.nextTimerId = @ + 1]

ScheduleFlagClear(st, index, behavior) ==
  [st EXCEPT
     !.timers = @ \cup {[id |-> st.nextTimerId,
                         delay |-> FlagClearDelay(behavior),
                         remaining |-> FlagClearDelay(behavior),
                         index |-> index,
                         overlapped |-> st.timers # {}]},
     !.scrollTimeout = st.nextTimerId,
     !.nextTimerId = @ + 1]

\* selectSlide past its early returns
SelectTarget(st, index, behavior) ==
  LET s1 == [st EXCEPT !.isScrolling = TRUE]
      s2 == UpdateActiveThumbnail(s1, index)
      s3 == UpdateSlideVisibility(s2, index)
      s4 == ScrollToSlide(s3, index, behavior)
      s5 == ScheduleFlagClear(s4, index, behavior)
  IN LoadSlideContent(s5, index)

\* mutant: no early return
SelectSlide_Unchecked(st, index, behavior) ==
  SelectTarget([st EXCEPT !.calls = Append(@, index)], index, behavior)

SelectSlide(st, index, behavior) ==
  IF ~initialized \/ index < 0 \/ index >= numSlides \/ index \notin Slides
  THEN [st EXCEPT !.calls = Append(@, index)]
  ELSE SelectTarget([st EXCEPT !.calls = Append(@, index)], index, behavior)

\* ---- geometry -----------------------------------------------------------
\* distance between the centre of slide i and the centre of the container
CenterDistance(i, top) == Abs(i * SlideHeight - top)

\* mutant: on equal distances the later slide replaces the earlier one
RECURSIVE ClosestFrom_LastOnTie(_, _, _, _)
ClosestFrom_LastOnTie(i, top, closestIndex, closestDistance) ==
  IF i >= numSlides THEN closestIndex
  ELSE IF closestDistance = NoIndex \/ CenterDistance(i, top) <= closestDistance
       THEN ClosestFrom_LastOnTie(i + 1, top, i, CenterDistance(i, top))
       ELSE ClosestFrom_LastOnTie(i + 1, top, closestIndex, closestDistance)

RECURSIVE ClosestFrom(_, _, _, _)
ClosestFrom(i, top, closestIndex, closestDistance) ==
  IF i >= numSlides THEN closestIndex
  ELSE IF closestDistance = NoIndex \/ CenterDistance(i, top) < closestDistance
       THEN ClosestFrom(i + 1, top, i, CenterDistance(i, top))
       ELSE ClosestFrom(i + 1, top, closestIndex, closestDistance)

GetCurrentSlideIndex(top) ==
  IF ~initialized \/ numSlides = 0 THEN 0
  ELSE ClosestFrom(0, top, 0, NoIndex)

\* intersectionRatio of slide i, in units of 1/SlideHeight
IntersectionRatio(i, top) == Max(0, SlideHeight - Abs(i * SlideHeight - top))

\* mutant: on equal ratios the later entry replaces the earlier one
RECURSIVE ReduceMostVisible_LastOnTie(_, _, _)
ReduceMostVisible_LastOnTie(i, top, prev) ==
  IF i >= numSlides THEN prev
  ELSE IF IntersectionRatio(i, top) >= IntersectionRatio(prev, top)
       THEN ReduceMostVisible_LastOnTie(i + 1, top, i)
       ELSE ReduceMostVisible_LastOnTie(i + 1, top, prev)

RECURSIVE ReduceMostVisible(_, _, _)
ReduceMostVisible(i, top, prev) ==
  IF i >= numSlides THEN prev
  ELSE IF IntersectionRatio(i, top) > IntersectionRatio(prev, top)
       THEN ReduceMostVisible(i + 1, top, i)
       ELSE ReduceMostVisible(i + 1, top, prev)

GetMostVisibleElement(top) == ReduceMostVisible(1, top, 0)

\* ---- thumbnails ---------------------------------------------------------
\* the img of a slide: none, one with alt text, one whose alt is empty
Images == {"none", "alt", "noalt"}
Markups == [marker : BOOLEAN, image : Images]

\* what a button shows: its own markup, the innerHTML of the marker of a
\* slide, a generated img with the src of the slide's img and an alt (the
\* img's own or `Slide ${number}`), or the text of a number
OwnMarkup == [kind |-> "markup", slide |-> NoIndex, alt |-> "", number |-> 0]
MarkerContent(k) == [kind |-> "marker", slide |-> k, alt |-> "", number |-> 0]
OwnAlt(k) == [kind |-> "image", slide |-> k, alt |-> "own", number |-> 0]
FallbackAlt(k) ==
  [kind |-> "image", slide |-> k, alt |-> "Slide", number |-> k + 1]
NumberLabel(k) ==
  [kind |-> "label", slide |-> NoIndex, alt |-> "", number |-> k + 1]

\* mutant: the image is tried before the marker
PopulateThumbnail_ImageFirst(index) ==
  LET slide == slideMarkup[index]
  IN IF slide.image # "none"
     THEN IF slide.image = "alt" THEN OwnAlt(index) ELSE FallbackAlt(index)
     ELSE IF slide.marker THEN MarkerContent(index)
     ELSE NumberLabel(index)

\* the body of the forEach of #initializeThumbnails for a button whose slide
\* exists
PopulateThumbnail(index) ==
  LET slide == slideMarkup[index]
  IN IF slide.marker THEN MarkerContent(index)
     ELSE IF slide.image # "none"
          THEN IF slide.image = "alt" THEN OwnAlt(index) ELSE FallbackAlt(index)
          ELSE NumberLabel(index)

InitializeThumbnails ==
  [index \in Buttons |-> IF index \notin Slides THEN thumbnailContent[index]
                         ELSE PopulateThumbnail(index)]

\* ---- initial state: the element is constructed, not yet attached --------
\* the lazy element of slide k: a URL in data-src, an empty data-src, or
\* loading="lazy" without data-src
LazyLayout(k) ==
  IF k % 3 = 0 THEN Url(k) ELSE IF k % 3 = 1 THEN EmptyString ELSE Absent

\* the thumbnail markup of slide k in the page the element is followed in
PageMarkup(k) ==
  IF k % 3 = 0 THEN [marker |-> TRUE, image |-> "alt"]
  ELSE IF k % 3 = 1 THEN [marker |-> FALSE, image |-> "noalt"]
  ELSE [marker |-> FALSE, image |-> "none"]

\* the element as constructed, whatever its slides hold
Constructed ==
  /\ variant \in Variants
  /\ numSlides \in 0 .. MaxSlides
  /\ \E surplus \in ButtonSurplus : numButtons = numSlides + surplus
  /\ thumbnailContent = [k \in Buttons |-> OwnMarkup]
  /\ attached = FALSE
  /\ initialized = FALSE
  /\ listeners = 0
  /\ ariaHidden = [k \in Slides |-> "unset"]
  /\ ariaSelected = [k \in Buttons |-> "unset"]
  /\ dataSlideIndex = [k \in Slides |-> NoIndex]
  /\ isScrolling = FALSE
  /\ scrollTimeout = NoTimer
  /\ timers = {}
  /\ nextTimerId = 1
  /\ debounceTimer = NoIndex
  /\ observers = 0
  /\ scrollTop = 0
  /\ scrollTarget = NoIndex
  /\ dataSrc = [k \in Slides |-> LazyLayout(k)]
  /\ srcAttr = [k \in Slides |-> NoSrc]
  /\ last = Quiet("init")
  /\ budget = MaxEvents

Init ==
  /\ Constructed
  /\ slideMarkup = [k \in Slides |-> PageMarkup(k)]

\* the element attached to and detached from pages of every thumbnail markup
InitAttach ==
  /\ Constructed
  /\ slideMarkup \in [Slides -> Markups]

\* an event from outside (the page, the user, the document) uses the budget,
\* except the element's first attach; the steps of the browser's event loop
\* do not
External == budget > 0 /\ budget' = budget - 1
Internal == UNCHANGED budget

\* ---- lifecycle ----------------------------------------------------------
\* mutant: slides that already have aria-hidden keep it
InitializeSlides_KeepsVisibility ==
  [k \in Slides |-> IF ariaHidden[k] # "unset" THEN ariaHidden[k]
                    ELSE IF k = 0 THEN "false" ELSE "true"]

\* the aria-hidden #initializeSlides gives the slides
InitializeSlides ==
  [k \in Slides |-> IF k = 0 THEN "false" ELSE "true"]

ConnectedCallback ==
  /\ ~attached
  /\ attached' = TRUE
  /\ initialized' = TRUE
  /\ ariaHidden' = InitializeSlides
  /\ dataSlideIndex' = [k \in Slides |-> k]
  /\ thumbnailContent' = InitializeThumbnails
  /\ listeners' = listeners + 1
  /\ last' = Quiet("connectedCallback")
  /\ IF initialized THEN External ELSE Internal
  /\ UNCHANGED <<config, ariaSelected, isScrolling, scrollTimeout, timers,
                 nextTimerId, debounceTimer, observers, scrollTop, scrollTarget,
                 dataSrc, srcAttr>>

\* variant 1 removes the stored handlers; variant 2 passes fresh closures to
\* removeEventListener, which removes nothing
RemoveThumbnailHandlers == IF variant = 1 THEN 0 ELSE listeners

DisconnectedCallback ==
  /\ attached
  /\ attached' = FALSE
  /\ listeners' = RemoveThumbnailHandlers
  /\ timers' = IF scrollTimeout # NoTimer
               THEN {t \in timers : t.id # scrollTimeout}
               ELSE timers
  /\ last' = Quiet("disconnectedCallback")
  /\ External
  /\ UNCHANGED <<config, initialized, thumbnailContent, ariaHidden,
                 ariaSelected, dataSlideIndex,
                 isScrolling, scrollTimeout, nextTimerId, debounceTimer,
                 observers, scrollTop, scrollTarget, dataSrc, srcAttr>>

\* the attached element is moved within the document: the browser calls
\* disconnectedCallback and then connectedCallback, one right after the other
MovedInDocument ==
  /\ attached
  /\ External
  /\ listeners' = RemoveThumbnailHandlers + 1
  /\ timers' = IF scrollTimeout # NoTimer
               THEN {t \in timers : t.id # scrollTimeout}
               ELSE timers
  /\ ariaHidden' = InitializeSlides
  /\ dataSlideIndex' = [k \in Slides |-> k]
  /\ thumbnailContent' = InitializeThumbnails
  /\ last' = Quiet("moved")
  /\ UNCHANGED <<config, attached, initialized, ariaSelected, isScrolling,
                 scrollTimeout, nextTimerId, debounceTimer, observers, scrollTop,
                 scrollTarget, dataSrc, srcAttr>>

\* ---- selection ----------------------------------------------------------
Frame == UNCHANGED <<config, attached, initialized, listeners, thumbnailContent, dataSlideIndex,
                     observers>>

\* the public method, called with any index and behaviour
SelectSlideCall(index, behavior) ==
  /\ External
  /\ \E st \in {SelectSlide(Cur, index, behavior)} :
        /\ Commit(st)
        /\ last' = Did("selectSlide", index, behavior, FALSE, st)
  /\ Frame

\* the click listener of button index: () => this.selectSlide(index)
ClickHandler(st, index) == SelectSlide(st, index, "smooth")

\* every click listener registered on the button runs, one after the other
RECURSIVE ClickListeners(_, _, _)
ClickListeners(st, index, n) ==
  IF n = 0 THEN st
  ELSE CHOOSE r \in {ClickListeners(v, index, n - 1) :
                        v \in {ClickHandler(st, index)}} : TRUE

\* every pointerenter listener registered on the button runs
RECURSIVE PointerListeners(_, _, _)
PointerListeners(st, index, n) ==
  IF n = 0 THEN st
  ELSE CHOOSE r \in {PointerListeners(v, index, n - 1) :
                        v \in {LoadSlideContent(st, index)}} : TRUE

ThumbnailClick(k) ==
  /\ listeners > 0
  /\ External
  /\ \E st \in {ClickListeners(Cur, k, listeners)} :
        /\ Commit(st)
        /\ last' = Did("click", k, "smooth", FALSE, st)
  /\ Frame

ThumbnailPointerEnter(k) ==
  /\ listeners > 0
  /\ External
  /\ \E st \in {PointerListeners(Cur, k, listeners)} :
        /\ Commit(st)
        /\ last' = Did("pointerenter", k, "", FALSE, st)
  /\ Frame

\* ---- wheel snapping and stepping (variant 2) ----------------------------
\* mutant: the step is not clamped to the slides
WheelTarget_Unclamped(currentIndex, deltaY) ==
  currentIndex + (IF deltaY > 0 THEN 1 ELSE -1)

WheelTarget(currentIndex, deltaY) ==
  LET direction == IF deltaY > 0 THEN 1 ELSE -1
  IN Max(0, Min(numSlides - 1, currentIndex + direction))

\* mutant: the flag is not tested
WheelSnap_IgnoresFlag(st, deltaY) ==
  LET currentIndex == GetCurrentSlideIndex(st.scrollTop)
      nextIndex == WheelTarget(currentIndex, deltaY)
  IN IF ~initialized \/ numSlides <= 1 THEN st
     ELSE IF nextIndex # currentIndex
          THEN SelectSlide(st, nextIndex, "smooth")
          ELSE st

\* handleWheel after event.preventDefault()
WheelSnap(st, deltaY) ==
  LET currentIndex == GetCurrentSlideIndex(st.scrollTop)
      nextIndex == WheelTarget(currentIndex, deltaY)
  IN IF st.isScrolling \/ ~initialized \/ numSlides <= 1 THEN st
     ELSE IF nextIndex # currentIndex
          THEN SelectSlide(st, nextIndex, "smooth")
          ELSE st

\* mutant: the reduced-motion preference is not consulted
WheelStep_IgnoresPreference(st, deltaY, rm) ==
  WheelSnap([st EXCEPT !.prevented = TRUE], deltaY)

WheelStep(st, deltaY, rm) ==
  IF rm THEN st
  ELSE WheelSnap([st EXCEPT !.prevented = TRUE], deltaY)

HandleWheel(deltaY, rm) ==
  /\ variant = 2
  /\ attached
  /\ External
  /\ \E st \in {WheelStep(Cur, deltaY, rm)} :
        /\ Commit(st)
        /\ last' = Did("wheel", deltaY, "", rm, st)
  /\ Frame

SlideCount == IF initialized THEN numSlides ELSE 0

NextStep(st) ==
  LET currentIndex == GetCurrentSlideIndex(st.scrollTop)
  IN IF currentIndex < SlideCount - 1
     THEN SelectSlide(st, currentIndex + 1, "smooth")
     ELSE st

PreviousStep(st) ==
  LET currentIndex == GetCurrentSlideIndex(st.scrollTop)
  IN IF currentIndex > 0
     THEN SelectSlide(st, currentIndex - 1, "smooth")
     ELSE st

NextSlide ==
  /\ variant = 2
  /\ External
  /\ \E st \in {NextStep(Cur)} :
        /\ Commit(st)
        /\ last' = Did("next", NoIndex, "", FALSE, st)
  /\ Frame

PreviousSlide ==
  /\ variant = 2
  /\ External
  /\ \E st \in {PreviousStep(Cur)} :
        /\ Commit(st)
        /\ last' = Did("previous", NoIndex, "", FALSE, st)
  /\ Frame

\* ---- scrolling of the container -----------------------------------------
MaxScrollTop == IF numSlides = 0 THEN 0 ELSE (numSlides - 1) * SlideHeight

\* the user scrolls the container one step up or down (touch, keyboard,
\* scrollbar, native wheel); this ends a running smooth scroll
UserScroll(top) ==
  /\ External
  /\ top \in 0 .. MaxScrollTop
  /\ Commit(ScrollEvent([Cur EXCEPT !.scrollTop = top, !.scrollTarget = NoIndex]))
  /\ last' = Quiet("userScroll")
  /\ Frame

\* one frame of a smooth scroll
ScrollAnimationStep ==
  /\ scrollTarget # NoIndex
  /\ LET top == IF scrollTop < scrollTarget THEN scrollTop + 1 ELSE scrollTop - 1
     IN Commit(ScrollEvent([Cur EXCEPT
               !.scrollTop = top,
               !.scrollTarget = IF top = scrollTarget THEN NoIndex ELSE @]))
  /\ last' = Quiet("scrollAnimation")
  /\ Internal
  /\ Frame

\* mutant: the flag is not tested
HandleScrollStarts_IgnoresFlag == initialized /\ numSlides > 0

\* handleScroll up to its await: TRUE when an observation is started
HandleScrollStarts == ~isScrolling /\ initialized /\ numSlides > 0

\* the debounce timer fires and runs handleScroll up to its await
DebounceFire ==
  /\ debounceTimer = 0
  /\ debounceTimer' = NoIndex
  /\ observers' = IF HandleScrollStarts THEN observers + 1 ELSE observers
  /\ last' = Quiet("handleScroll")
  /\ Internal
  /\ UNCHANGED <<config, attached, initialized, listeners, thumbnailContent, ariaHidden,
                 ariaSelected, dataSlideIndex, isScrolling, scrollTimeout,
                 timers, nextTimerId, scrollTop, scrollTarget, dataSrc, srcAttr>>

\* handleScroll after its await: the observer has delivered its entries
HandleScrollResume(st) ==
  LET activeIndex == GetMostVisibleElement(st.scrollTop)
  IN UpdateSlideVisibility(UpdateActiveThumbnail(st, activeIndex), activeIndex)

ObserverDeliver ==
  /\ observers > 0
  /\ observers' = observers - 1
  /\ Commit(HandleScrollResume(Cur))
  /\ last' = Quiet("observed")
  /\ Internal
  /\ UNCHANGED <<config, attached, initialized, listeners, thumbnailContent, dataSlideIndex>>

\* ---- timers and time ----------------------------------------------------
FlagTimerFire(t) ==
  /\ t.remaining = 0
  /\ isScrolling' = FALSE
  /\ timers' = timers \ {t}
  /\ last' = Quiet("flagTimer")
  /\ Internal
  /\ UNCHANGED <<config, attached, initialized, listeners, thumbnailContent, ariaHidden,
                 ariaSelected, dataSlideIndex, scrollTimeout, nextTimerId,
                 debounceTimer, observers, scrollTop, scrollTarget, dataSrc,
                 srcAttr>>

Pending == {t.remaining : t \in timers}
             \cup (IF debounceTimer = NoIndex THEN {} ELSE {debounceTimer})

\* time advances to the next moment a timer is due
Tick ==
  /\ \E d \in Pending :
       /\ d > 0
       /\ \A e \in Pending : d <= e
       /\ timers' = {[t EXCEPT !.remaining = @ - d] : t \in timers}
       /\ debounceTimer' = IF debounceTimer = NoIndex THEN NoIndex
                           ELSE debounceTimer - d
  /\ last' = Quiet("tick")
  /\ Internal
  /\ UNCHANGED <<config, attached, initialized, listeners, thumbnailContent, ariaHidden,
                 ariaSelected, dataSlideIndex, isScrolling, scrollTimeout,
                 nextTimerId, observers, scrollTop, scrollTarget, dataSrc,
                 srcAttr>>

Next ==
  \/ ConnectedCallback
  \/ DisconnectedCallback
  \/ MovedInDocument
  \/ \E index \in -1 .. numSlides, behavior \in Behaviors :
       SelectSlideCall(index, behavior)
  \/ \E k \in Buttons : ThumbnailClick(k)
  \/ \E k \in Buttons : ThumbnailPointerEnter(k)
  \/ \E deltaY \in {-1, 0, 1}, rm \in BOOLEAN : HandleWheel(deltaY, rm)
  \/ NextSlide
  \/ PreviousSlide
  \/ \E top \in {scrollTop - 1, scrollTop + 1} : UserScroll(top)
  \/ ScrollAnimationStep
  \/ DebounceFire
  \/ ObserverDeliver
  \/ \E t \in timers : FlagTimerFire(t)
  \/ Tick

Spec == Init /\ [][Next]_vars

NextAttach ==
  \/ ConnectedCallback
  \/ DisconnectedCallback
  \/ MovedInDocument

SpecAttach == InitAttach /\ [][NextAttach]_vars

\* ======================================================================
\* Properties
\* ======================================================================
VisibleSlides == {k \in Slides : ariaHidden[k] = "false"}
SelectedThumbnails == {k \in Buttons : ariaSelected[k] = "true"}

\* slide i is the one visible slide and thumbnail i the one selected button
Shows(i) ==
  /\ \A k \in Slides : ariaHidden[k] = IF k = i THEN "false" ELSE "true"
  /\ \A k \in Buttons : ariaSelected[k] = IF k = i THEN "true" ELSE "false"

\* everything of the element and its DOM but the two history variables
element == <<config, attached, initialized, listeners, thumbnailContent, ariaHidden, ariaSelected,
             dataSlideIndex, isScrolling, scrollTimeout, timers, nextTimerId,
             debounceTimer, observers, scrollTop, scrollTarget, dataSrc, srcAttr>>

\* the last handler was the public selectSlide, called with a valid index
SelectedValid ==
  last.op = "selectSlide" /\ initialized /\ last.index \in Slides

\* the slide whose centre is closest to the centre of the container, the
\* lowest index among equals
ClosestSlide(top) ==
  CHOOSE c \in Slides :
    /\ \A k \in Slides : CenterDistance(c, top) <= CenterDistance(k, top)
    /\ \A k \in Slides : CenterDistance(k, top) = CenterDistance(c, top) => c <= k

\* C1: from attach onward exactly one slide has aria-hidden=false, exactly
\* one thumbnail has aria-selected=true, and both are at the same index.
C1_ExactlyOneActive ==
  (initialized /\ numSlides > 0) =>
     \E i \in Slides : VisibleSlides = {i} /\ SelectedThumbnails = {i}

\* C2: once selectSlide(i) has run with a valid i (called directly, by a
\* thumbnail click, by a wheel event or by next/previous), slide i alone
\* has aria-hidden=false and thumbnail i alone has aria-selected=true when
\* the call returns.
C2_SelectShowsSlide ==
  (initialized /\ last.calls # << >> /\ last.calls[Len(last.calls)] \in Slides)
     => Shows(last.calls[Len(last.calls)])

C2_Witness ==
  /\ SelectedValid /\ last.index = 1 /\ Shows(1)
  /\ \E t \in timers : t.id = scrollTimeout

\* C3: selectSlide with an index below 0 or not below slideCount, or with
\* no slide list, changes nothing of the element and emits no event.
C3_InvalidSelectIsNoOp ==
  [][(last'.op = "selectSlide" /\ (~initialized \/ last'.index \notin Slides))
       => (UNCHANGED element /\ last'.events = << >>)]_vars

C3_Witness ==
  /\ last.op = "selectSlide" /\ initialized /\ last.index = numSlides
  /\ isScrolling /\ timers # {} /\ numSlides > 1

\* C4: when selectSlide(j) is called while the timer of an earlier
\* selection is pending, slide j and thumbnail j stay the active ones until
\* the delay of the later call has elapsed.
C4_NoFlickerInGuardWindow ==
  \A t \in timers :
     (t.id = scrollTimeout /\ t.overlapped /\ t.remaining > 0) => Shows(t.index)

\* C5: every next() or previous() that calls selectSlide moves the selected
\* slide by exactly one step in its direction and stays within the slides.
C5_StepsByOne ==
  [][(last'.op \in {"next", "previous"} /\ last'.calls # << >>)
       => \E s \in Slides :
            LET step == IF last'.op = "next" THEN 1 ELSE -1
            IN /\ VisibleSlides = {s}
               /\ s + step \in Slides
               /\ last'.calls = <<s + step>>
               /\ VisibleSlides' = {s + step}]_vars

C7_WheelStepsAndClamps ==
  [][(/\ last'.op = "wheel" /\ ~last'.reducedMotion /\ last'.index # 0
      /\ ~isScrolling /\ numSlides > 1)
       => LET c == ClosestSlide(scrollTop)
              wanted == IF last'.index > 0 THEN Min(c + 1, numSlides - 1)
                        ELSE Max(c - 1, 0)
          IN IF wanted # c
             THEN /\ last'.calls = <<wanted>>
                  /\ VisibleSlides' = {wanted}
                  /\ SelectedThumbnails' = {wanted}
             ELSE /\ last'.calls = << >>
                  /\ UNCHANGED <<ariaHidden, ariaSelected>>]_vars

C7_Witness ==
  /\ last.op = "wheel" /\ ~last.reducedMotion /\ last.index = 1
  /\ last.calls = <<1>> /\ Shows(1)

\* C8: with the reduced-motion preference active a wheel event does not
\* prevent the default scroll, calls no selectSlide, emits no event and
\* changes nothing of the element.
C8_ReducedMotionWheelIsNoOp ==
  [][(last'.op = "wheel" /\ last'.reducedMotion)
       => /\ ~last'.prevented
          /\ last'.calls = << >>
          /\ last'.events = << >>
          /\ UNCHANGED element]_vars

C8_Witness ==
  /\ last.op = "wheel" /\ last.reducedMotion /\ last.index = 1
  /\ ~isScrolling /\ numSlides > 1 /\ ClosestSlide(scrollTop) = 0

\* C9 as stated: after a valid selectSlide(i) every element of slide i that
\* carried a data-src attribute has it as its src and carries it no more,
\* the other slides are untouched, and one event with index i was emitted.
C9_DeferredAttributePromoted ==
  [][(last'.op = "selectSlide" /\ initialized /\ last'.index \in Slides)
       => /\ dataSrc[last'.index] # Absent =>
               /\ srcAttr'[last'.index] = dataSrc[last'.index]
               /\ dataSrc'[last'.index] = Absent
          /\ \A k \in Slides \ {last'.index} :
               dataSrc'[k] = dataSrc[k] /\ srcAttr'[k] = srcAttr[k]
          /\ last'.events = <<last'.index>>]_vars

\* C9 as amended: the same for every element whose data-src is not empty;
\* an element with an empty data-src, or with none, keeps its attributes.
C9_NonEmptyDeferredPromoted ==
  [][(last'.op = "selectSlide" /\ initialized /\ last'.index \in Slides)
       => /\ IF dataSrc[last'.index] \notin {Absent, EmptyString}
             THEN /\ srcAttr'[last'.index] = dataSrc[last'.index]
                  /\ dataSrc'[last'.index] = Absent
             ELSE /\ srcAttr'[last'.index] = srcAttr[last'.index]
                  /\ dataSrc'[last'.index] = dataSrc[last'.index]
          /\ \A k \in Slides \ {last'.index} :
               dataSrc'[k] = dataSrc[k] /\ srcAttr'[k] = srcAttr[k]
          /\ last'.events = <<last'.index>>]_vars

C9_Witness ==
  /\ SelectedValid /\ last.index = 0 /\ last.events = <<0>>
  /\ srcAttr[0] = Url(0) /\ dataSrc[0] = Absent
  /\ numSlides > 1 /\ dataSrc[1] = EmptyString /\ srcAttr[1] = NoSrc

\* C10: the scroll handler never writes aria-hidden or aria-selected while
\* the flag is set, also when selectSlide set it between the start of the
\* handler and the delivery of the observation.
C10_NoReactiveWriteWhileScrolling ==
  last.op = "observed" => ~isScrolling

\* C11: the flag is transient: no state has the flag set with no flag-clear
\* timer pending to clear it, whatever selectSlide calls, detaches and
\* re-attaches came before.
C11_FlagHasPendingTimer ==
  isScrolling => timers # {}

\* C12: a pending flag-clear timer is neither cancelled nor extended by a
\* later selectSlide: it stays pending with its delay, loses time only as
\* time passes, and goes away only by firing when it is due, which clears
\* the flag whatever other timer is still pending, or by a detach while it
\* is the most recently scheduled one.
C12_EarlierTimerStillFires ==
  [][\A t \in timers :
       \/ \E u \in timers' :
            /\ u.id = t.id /\ u.delay = t.delay
            /\ u.remaining = t.remaining \/ (last'.op = "tick" /\ u.remaining < t.remaining)
       \/ last'.op = "flagTimer" /\ t.remaining = 0 /\ ~isScrolling'
       \/ last'.op \in {"disconnectedCallback", "moved"} /\ t.id = scrollTimeout]_vars

\* an earlier timer has fired and cleared the flag while the timer of the
\* latest selectSlide has time left
C12_Witness ==
  /\ last.op = "flagTimer" /\ ~isScrolling
  /\ \E t \in timers : t.id = scrollTimeout /\ t.overlapped /\ t.remaining > 0

\* C13: without reduced motion, a wheel event that arrives while the flag
\* is set prevents the default scroll, calls no selectSlide and changes
\* nothing of the element, so the wheel events of one guard window select
\* at most the slide the first of them selected.
C13_WheelIgnoredWhileScrolling ==
  [][(last'.op = "wheel" /\ ~last'.reducedMotion /\ isScrolling)
       => /\ last'.prevented
          /\ last'.calls = << >>
          /\ last'.events = << >>
          /\ UNCHANGED element]_vars

\* a second wheel event inside the window the first one opened: it would
\* have selected the next slide with the flag clear
C13_Witness ==
  /\ last.op = "wheel" /\ ~last.reducedMotion /\ last.index = 1
  /\ last.prevented /\ last.calls = << >>
  /\ isScrolling /\ numSlides > 1 /\ ClosestSlide(scrollTop) = 0
  /\ Shows(1) /\ \E t \in timers : t.id = scrollTimeout /\ t.remaining > 0

\* C14: listeners are never left attached or accumulated: a thumbnail click
\* or pointerenter runs a handler only while the element is attached, and
\* one click on thumbnail i calls selectSlide(i) exactly once.
C14_ListenersNeitherLeftNorAccumulated ==
  [][(last'.op \in {"click", "pointerenter"})
       => /\ attached
          /\ last'.op = "click" => last'.calls = <<last'.index>>]_vars

\* C15 as stated: every burst of scroll events triggers exactly one
\* active-slide recomputation: each run of the debounced handler starts one.
C15_EveryBurstRecomputes ==
  [][last'.op = "handleScroll" => observers' = observers + 1]_vars

\* C15 as amended: a scroll event of the attached container restarts the one
\* debounce timer with the full delay; the timer loses time only as time
\* passes; the handler runs only when the timer is due, once, and starts one
\* recomputation unless the flag is set or there is no slide; nothing else
\* starts a recomputation, and each one applies its result once.
C15_TrailingDebounceCollapses ==
  [][/\ (scrollTop' # scrollTop /\ attached) => debounceTimer' = DebounceDelay
     /\ (debounceTimer' # debounceTimer /\ debounceTimer' \notin {NoIndex, DebounceDelay})
           => (last'.op = "tick" /\ debounceTimer' < debounceTimer)
     /\ last'.op = "handleScroll"
           => /\ debounceTimer = 0 /\ debounceTimer' = NoIndex
              /\ observers' = IF ~isScrolling /\ initialized /\ numSlides > 0
                               THEN observers + 1 ELSE observers
     /\ observers' > observers => last'.op = "handleScroll"
     /\ last'.op = "observed" => observers' = observers - 1]_vars

\* two scroll events, one run of the handler, one recomputation under way
C15_Witness ==
  /\ last.op = "handleScroll" /\ observers = 1 /\ debounceTimer = NoIndex
  /\ scrollTop = 2 /\ nextTimerId = 1 /\ \A k \in Buttons : ariaSelected[k] = "unset"

\* C16: a pointerenter on thumbnail i emits exactly one slide-content-loaded
\* event, with index i, promotes the deferred source of slide i and leaves
\* aria-hidden, aria-selected, the flag, the timers and the scroll position
\* as they were.
C16_HoverLoadsOnce ==
  [][(last'.op = "pointerenter" /\ last'.index \in Slides)
       => /\ last'.events = <<last'.index>>
          /\ last'.calls = << >>
          /\ dataSrc[last'.index] \notin {Absent, EmptyString}
                => /\ srcAttr'[last'.index] = dataSrc[last'.index]
                   /\ dataSrc'[last'.index] = Absent
          /\ UNCHANGED <<ariaHidden, ariaSelected, isScrolling, scrollTimeout,
                         timers, scrollTop, scrollTarget>>]_vars

\* C17: every attach, also a re-attach after selections, leaves slide 0 with
\* aria-hidden=false and every other slide with aria-hidden=true and gives
\* each slide its position as data-slide-index; from the first attach on
\* that index never changes.
C17_AttachResetsSlides ==
  [][/\ last'.op \in {"connectedCallback", "moved"}
          => \A k \in Slides :
                ariaHidden'[k] = IF k = 0 THEN "false" ELSE "true"
     /\ initialized' => \A k \in Slides : dataSlideIndex'[k] = k]_vars

\* an attach after slide 1 had been selected
C17_Witness ==
  /\ last.op \in {"connectedCallback", "moved"}
  /\ numSlides > 1 /\ ariaSelected[1] = "true"
  /\ ariaHidden[0] = "false" /\ ariaHidden[1] = "true"
  /\ dataSlideIndex[1] = 1

\* C18: the scroll recomputation makes active one of the observed slides:
\* none has a strictly greater intersection ratio, and among the slides of
\* equal ratio it is the first in delivery order.
C18_MostVisibleIsMaximal ==
  [][last'.op = "observed"
       => \E a \in Slides :
            /\ VisibleSlides' = {a}
            /\ SelectedThumbnails' = {a}
            /\ \A k \in Slides :
                 /\ IntersectionRatio(k, scrollTop) <= IntersectionRatio(a, scrollTop)
                 /\ IntersectionRatio(k, scrollTop) = IntersectionRatio(a, scrollTop)
                      => a <= k]_vars

\* slides 0 and 1 are both half visible and slide 0 has been made active
C18_Witness ==
  /\ last.op = "observed" /\ numSlides > 1 /\ scrollTop = 1
  /\ IntersectionRatio(0, scrollTop) = IntersectionRatio(1, scrollTop)
  /\ Shows(0)

\* C19: currentIndex is the slide whose centre is closest to the centre of
\* the container, the lowest index among equally close slides, and 0 when
\* there are no slides; next() and previous() step from that index.
C19_CurrentIndexIsClosest ==
  [][LET c == IF initialized /\ numSlides > 0 THEN ClosestSlide(scrollTop) ELSE 0
     IN /\ GetCurrentSlideIndex(scrollTop) = c
        /\ last'.op = "next"
              => last'.calls = IF c < SlideCount - 1 THEN <<c + 1>> ELSE << >>
        /\ last'.op = "previous"
              => last'.calls = IF c > 0 THEN <<c - 1>> ELSE << >>]_vars

\* next() called half way between slides 0 and 1: currentIndex was 0
C19_Witness ==
  /\ last.op = "next" /\ last.calls = <<1>>
  /\ numSlides > 1 /\ scrollTop = 1
  /\ CenterDistance(0, scrollTop) = CenterDistance(1, scrollTop)

\* C20: on attach thumbnail i shows the content of slide i: the marker's
\* content when the slide has a marker; else an image generated from the
\* slide's image, with that image's alt text or "Slide i+1" when it has
\* none; else the number i+1.  A button with no slide keeps what it showed.
C20_ThumbnailContentByPriority ==
  [][last'.op \in {"connectedCallback", "moved"}
       => \A i \in Buttons :
            LET shown == thumbnailContent'[i]
            IN IF i \notin Slides THEN shown = thumbnailContent[i]
               ELSE /\ slideMarkup[i].marker
                         => shown.kind = "marker" /\ shown.slide = i
                    /\ (~slideMarkup[i].marker /\ slideMarkup[i].image # "none")
                         => /\ shown.kind = "image" /\ shown.slide = i
                            /\ slideMarkup[i].image = "alt" => shown.alt = "own"
                            /\ slideMarkup[i].image = "noalt"
                                 => shown.alt = "Slide" /\ shown.number = i + 1
                    /\ (~slideMarkup[i].marker /\ slideMarkup[i].image = "none")
                         => shown.kind = "label" /\ shown.number = i + 1]_vars

\* attached with a slide that has a marker and an image, a slide whose
\* image has no alt text, and a button without a slide
C20_Witness ==
  /\ last.op = "connectedCallback" /\ numSlides > 1 /\ numButtons > numSlides
  /\ slideMarkup[0].marker /\ slideMarkup[0].image = "alt"
  /\ thumbnailContent[0] = MarkerContent(0)
  /\ ~slideMarkup[1].marker /\ slideMarkup[1].image = "noalt"
  /\ thumbnailContent[1] = FallbackAlt(1)
  /\ thumbnailContent[numSlides] = OwnMarkup

====
